---- MODULE Spec2Model ----
(***************************************************************************)
(* Reservoir sampling (Vitter's Algorithm R) as implemented by             *)
(* reservoir::sample and reservoir::sample_into in src/src/lib.rs.         *)
(*                                                                         *)
(* One behaviour of the model is one call of sample or of sample_into.     *)
(* The source iterator is either a range 0..n, as in the crate's doctests, *)
(* whose distinct elements identify each element with its position, or any *)
(* sequence of 0s and 1s, which repeats elements.  The random source is a  *)
(* nondeterministic choice inside the requested half-open range.           *)
(***************************************************************************)
EXTENDS Integers, Sequences, FiniteSets

VARIABLES
    fn,               \* entry point of the call: "sample" or "sample_into"
    pc,               \* position in the call
    sample_size,      \* argument sample_size
    source,           \* every element the iterator yields, in order
    iter,             \* what the iterator has not yielded yet
    entry,            \* content of the Vec when sample_into is entered
    samples,          \* the Vec
    original_length,  \* local of sample_into
    count,            \* local of sample_into
    requests,         \* the gen_range calls made so far, as <<low, high>>
    draws             \* the values gen_range returned, in order

vars == <<fn, pc, sample_size, source, iter, entry, samples,
          original_length, count, requests, draws>>

----------------------------------------------------------------------------
(* Bounds of the model. *)

MaxSampleSize == 5

MaxLen == 4

MaxPrefix == 2

(* First element of the caller's Vec in the doctest of sample_into. *)
PrefixBase == 99

----------------------------------------------------------------------------
(* Helpers. *)

Min(a, b) == IF a <= b THEN a ELSE b

Max(a, b) == IF a >= b THEN a ELSE b

Last(s) == s[Len(s)]

Elems(s) == {s[i] : i \in 1..Len(s)}

(* The iterator `0..n`. *)
RangeIter(n) == [i \in 1..n |-> i - 1]

(* The sequences of at most n elements of S. *)
SeqsUpTo(S, n) == UNION {[1..k -> S] : k \in 0..n}

(* The sources of the model: the ranges 0..n and the sequences over {0, 1}. *)
Sources == {RangeIter(n) : n \in 0..MaxLen} \cup SeqsUpTo({0, 1}, MaxLen)

(* Whether no element of s occurs twice. *)
Distinct(s) == Cardinality(Elems(s)) = Len(s)

(* A caller's Vec of m elements: vec![99, 100, ...]. *)
PrefixVec(m) == [i \in 1..m |-> PrefixBase + i - 1]

(* Mutant: the element is inserted at the front instead of pushed. *)
PushFront(s, element) == <<element>> \o s

(* samples.push(element) *)
Push(s, element) == Append(s, element)

(* Mutant: the fill branch is left one element early. *)
FillBranchStrict(c, size) == c < size

(* The branch condition `count <= sample_size`, on the incremented count. *)
FillBranch(c, size) == c <= size

(* Mutant: the range is requested from the count before its increment. *)
DrawRangeStale(c) == <<0, c - 1>>

(* The arguments of rng.gen_range(0, count), on the incremented count. *)
DrawRange(c) == <<0, c>>

(* The values rng.gen_range(low, high) may return: low <= v < high. *)
GenRange(low, high) == low .. (high - 1)

(* Mutant: an index equal to sample_size replaces too. *)
ReplaceBranchInclusive(index, size) == index <= size

(* The branch condition `index < sample_size`. *)
ReplaceBranch(index, size) == index < size

(* Mutant: the offset of the managed region is dropped. *)
SlotNoOffset(orig, index) == index

(* The zero-based position written by samples[original_length+index]. *)
Slot(orig, index) == orig + index

(* Vec indexing panics unless the zero-based position is below len(). *)
InBounds(s, pos) == pos < Len(s)

(* Mutant: the position is stored instead of the element. *)
StorePosition(s, pos, element) == [s EXCEPT ![pos + 1] = pos]

(* samples[pos] = element, for a zero-based pos that is in bounds. *)
Store(s, pos, element) == [s EXCEPT ![pos + 1] = element]

----------------------------------------------------------------------------
(* The state machine. *)

Init ==
    /\ fn \in {"sample", "sample_into"}
    /\ sample_size \in 0..MaxSampleSize
    /\ source \in Sources
    /\ iter = source
    /\ \E m \in 0..MaxPrefix : entry = IF fn = "sample" THEN <<>> ELSE PrefixVec(m)
    /\ samples = entry
    /\ pc = IF fn = "sample" THEN "start" ELSE "entry"
    /\ original_length = 0
    /\ count = 0
    /\ requests = <<>>
    /\ draws = <<>>

(* sample: allocate the Vec and call sample_into on it. *)
SampleAlloc ==
    /\ pc = "start"
    /\ samples' = <<>>
    /\ pc' = "entry"
    /\ UNCHANGED <<fn, sample_size, source, iter, entry, original_length,
                   count, requests, draws>>

(* sample_into: the two locals. *)
Enter ==
    /\ pc = "entry"
    /\ original_length' = Len(samples)
    /\ count' = 0
    /\ pc' = "loop"
    /\ UNCHANGED <<fn, sample_size, source, iter, entry, samples, requests, draws>>

(* One iteration that takes the branch count <= sample_size. *)
Fill ==
    /\ pc = "loop"
    /\ iter # <<>>
    /\ FillBranch(count + 1, sample_size)
    /\ count' = count + 1
    /\ iter' = Tail(iter)
    /\ samples' = Push(samples, Head(iter))
    /\ UNCHANGED <<fn, pc, sample_size, source, entry, original_length,
                   requests, draws>>

(* One iteration that draws an index below sample_size. *)
Replace ==
    /\ pc = "loop"
    /\ iter # <<>>
    /\ ~FillBranch(count + 1, sample_size)
    /\ \E index \in GenRange(DrawRange(count + 1)[1], DrawRange(count + 1)[2]) :
          /\ ReplaceBranch(index, sample_size)
          /\ requests' = Append(requests, DrawRange(count + 1))
          /\ draws' = Append(draws, index)
          /\ IF InBounds(samples, Slot(original_length, index))
               THEN /\ samples' = Store(samples, Slot(original_length, index), Head(iter))
                    /\ pc' = pc
               ELSE /\ samples' = samples
                    /\ pc' = "panic"
    /\ count' = count + 1
    /\ iter' = Tail(iter)
    /\ UNCHANGED <<fn, sample_size, source, entry, original_length>>

(* One iteration that draws an index that is not below sample_size. *)
Discard ==
    /\ pc = "loop"
    /\ iter # <<>>
    /\ ~FillBranch(count + 1, sample_size)
    /\ \E index \in GenRange(DrawRange(count + 1)[1], DrawRange(count + 1)[2]) :
          /\ ~ReplaceBranch(index, sample_size)
          /\ requests' = Append(requests, DrawRange(count + 1))
          /\ draws' = Append(draws, index)
    /\ count' = count + 1
    /\ iter' = Tail(iter)
    /\ UNCHANGED <<fn, pc, sample_size, source, entry, samples, original_length>>

(* The iterator is exhausted: sample_into returns, and sample returns the Vec. *)
Return ==
    /\ pc = "loop"
    /\ iter = <<>>
    /\ pc' = "done"
    /\ UNCHANGED <<fn, sample_size, source, iter, entry, samples,
                   original_length, count, requests, draws>>

----------------------------------------------------------------------------
(* The same code as functions of its inputs: the Vec at entry, sample_size, *)
(* the source, and the values the random source returns, in order.         *)

(* The loop of sample_into from state st = [samples, count, requests,      *)
(* panicked], over the rest `it` of the source and the rest `d` of the     *)
(* values the random source returns.                                       *)
RECURSIVE RunLoop(_, _, _, _, _)
RunLoop(st, orig, size, it, d) ==
    IF it = <<>> \/ st.panicked THEN st
    ELSE LET c == st.count + 1
             element == Head(it)
         IN  IF FillBranch(c, size)
               THEN RunLoop([st EXCEPT !.count = c,
                                       !.samples = Push(st.samples, element)],
                            orig, size, Tail(it), d)
               ELSE LET index == Head(d)
                        asked == [st EXCEPT !.count = c,
                                            !.requests = Append(st.requests, DrawRange(c))]
                    IN  IF ReplaceBranch(index, size)
                          THEN IF InBounds(st.samples, Slot(orig, index))
                                 THEN RunLoop([asked EXCEPT !.samples =
                                                  Store(st.samples, Slot(orig, index), element)],
                                              orig, size, Tail(it), Tail(d))
                                 ELSE [asked EXCEPT !.panicked = TRUE]
                          ELSE RunLoop(asked, orig, size, Tail(it), Tail(d))

(* sample_into(&mut buffer, rng, size, src) with rng returning d. *)
SampleIntoFn(buffer, size, src, d) ==
    RunLoop([samples |-> buffer, count |-> 0, requests |-> <<>>, panicked |-> FALSE],
            Len(buffer), size, src, d)

(* sample(rng, size, src) with rng returning d: sample_into on a fresh Vec. *)
SampleFn(size, src, d) == SampleIntoFn(<<>>, size, src, d)

(* Every sequence of values the random source can return while the loop   *)
(* consumes c elements: one value per iteration past the fill branch.     *)
RECURSIVE DrawSeqs(_, _)
DrawSeqs(size, c) ==
    IF c = 0 THEN {<<>>}
    ELSE IF FillBranch(c, size) THEN DrawSeqs(size, c - 1)
    ELSE {Append(d, i) : d \in DrawSeqs(size, c - 1),
                         i \in GenRange(DrawRange(c)[1], DrawRange(c)[2])}

Next ==
    \/ SampleAlloc
    \/ Enter
    \/ Fill
    \/ Replace
    \/ Discard
    \/ Return

Spec == Init /\ [][Next]_vars

----------------------------------------------------------------------------
(* Properties. *)

(* The managed region of a Vec whose first orig elements are the caller's. *)
Managed(s, orig) == SubSeq(s, orig + 1, Len(s))

(* The source elements consumed so far. *)
Consumed == Elems(SubSeq(source, 1, count))

(* The subsets of S with k elements. *)
KSubsets(S, k) == {T \in SUBSET S : Cardinality(T) = k}

(* C1. Size law: sample returns a collection of exactly                   *)
(* min(sample_size, n) elements, n the length of the source, whatever the *)
(* random source returned.                                                *)
SizeLaw ==
    (pc = "done" /\ fn = "sample") =>
        Len(samples) = Min(sample_size, Len(source))

SizeLawWitness ==
    /\ pc = "done" /\ fn = "sample"
    /\ 0 < sample_size /\ sample_size < Len(source)
    /\ \E j \in 1..Len(draws) : draws[j] < sample_size
    /\ Len(samples) = sample_size

(* C2. Prefix preservation: at every step of sample_into and after it the *)
(* first original_length elements of the buffer are the ones it held at   *)
(* entry, in order, and after the call the buffer's length is             *)
(* original_length + min(sample_size, n).                                 *)
PrefixPreserved ==
    fn = "sample_into" =>
        /\ pc # "panic"
        /\ Len(samples) >= Len(entry)
        /\ SubSeq(samples, 1, Len(entry)) = entry
        /\ pc = "done" =>
              Len(samples) = Len(entry) + Min(sample_size, Len(source))

PrefixPreservedWitness ==
    /\ pc = "done" /\ fn = "sample_into"
    /\ Len(entry) = MaxPrefix /\ MaxPrefix > 0
    /\ samples[1] = PrefixBase
    /\ \E j \in 1..Len(draws) : draws[j] = 0

(* C3. A source shorter than sample_size: sample returns the source       *)
(* itself, every element in its original order, and no random draw was    *)
(* made, so every element went through the fill branch.                   *)
ShortSourceReturnedWhole ==
    (pc = "done" /\ fn = "sample" /\ Len(source) < sample_size) =>
        /\ samples = source
        /\ requests = <<>>
        /\ draws = <<>>

ShortSourceWitness ==
    /\ pc = "done" /\ fn = "sample"
    /\ Len(source) >= 2 /\ Len(source) < sample_size
    /\ Distinct(source)
    /\ samples = source

(* C4. Call count: the random source has been invoked                     *)
(* max(0, count - sample_size) times when count elements are consumed, so *)
(* max(0, n - sample_size) times by the end of the call, and its j-th     *)
(* invocation asks for a value in [0, sample_size + j).                   *)
CallCount ==
    /\ Len(requests) = Max(0, count - sample_size)
    /\ Len(draws) = Len(requests)
    /\ \A j \in 1..Len(requests) : requests[j] = <<0, sample_size + j>>
    /\ pc = "done" =>
          /\ count = Len(source)
          /\ Len(requests) = Max(0, Len(source) - sample_size)

CallCountWitness ==
    /\ pc = "done"
    /\ sample_size > 0
    /\ Len(source) = sample_size + 2
    /\ Len(requests) = 2
    /\ requests[2] = <<0, sample_size + 2>>

(* C5 as stated: with sample_size 0, sample returns an empty collection   *)
(* and the random source is never invoked.                                *)
ZeroSizeNeverDraws ==
    (pc = "done" /\ fn = "sample" /\ sample_size = 0) =>
        /\ samples = <<>>
        /\ requests = <<>>

(* C5 as amended: with sample_size 0, sample returns an empty collection, *)
(* and the random source is invoked once per source element, the j-th     *)
(* time for a value in [0, j); no drawn value is below sample_size, so    *)
(* nothing is ever stored.                                                *)
ZeroSizeDrawsAndDiscards ==
    (fn = "sample" /\ sample_size = 0) =>
        /\ pc # "panic"
        /\ samples = <<>>
        /\ Len(requests) = count
        /\ \A j \in 1..Len(requests) : requests[j] = <<0, j>>
        /\ pc = "done" => Len(requests) = Len(source)

ZeroSizeWitness ==
    /\ pc = "done" /\ fn = "sample" /\ sample_size = 0
    /\ Len(source) = MaxLen /\ MaxLen > 0
    /\ Len(requests) = MaxLen
    /\ samples = <<>>

(* C6. Uniformity: for a source of n distinct elements and                *)
(* 0 < sample_size = k <= n, every k-element subset of the source is the  *)
(* content of the final managed region for the same number of the draw    *)
(* sequences the random source can return, which are equally likely when  *)
(* each draw is uniform over its range; so every source element is in the *)
(* final reservoir for the fraction k/n of the draw sequences.            *)
Uniformity ==
    (pc = "done" /\ Distinct(source) /\ 0 < sample_size /\ sample_size <= Len(source)) =>
        LET all == DrawSeqs(sample_size, Len(source))
            content == [d \in all |->
                          Elems(Managed(SampleIntoFn(entry, sample_size, source, d).samples,
                                        Len(entry)))]
            subsets == KSubsets(Elems(source), sample_size)
            ways(T) == Cardinality({d \in all : content[d] = T})
            with(e) == Cardinality({d \in all : e \in content[d]})
        IN  /\ draws \in all
            /\ content[draws] = Elems(Managed(samples, Len(entry)))
            /\ \A T \in subsets : ways(T) * Cardinality(subsets) = Cardinality(all)
            /\ \A e \in Elems(source) : with(e) * Len(source) = sample_size * Cardinality(all)

UniformityWitness ==
    /\ pc = "done"
    /\ sample_size = 2 /\ source = RangeIter(4)
    /\ Elems(Managed(samples, Len(entry))) = {0, 3}
    /\ Cardinality(DrawSeqs(sample_size, Len(source))) = 12

(* C7. Element origin: at every step of a call and after it, every        *)
(* element of the managed region is an element the source has produced    *)
(* earlier in the call.                                                   *)
ElementOrigin ==
    \A i \in (Len(entry) + 1)..Len(samples) : samples[i] \in Consumed

ElementOriginWitness ==
    /\ pc = "loop" /\ fn = "sample_into"
    /\ Len(entry) > 0
    /\ draws # <<>> /\ Last(draws) < sample_size
    /\ samples[Len(entry) + Last(draws) + 1] = source[count]
    /\ Distinct(source)
    /\ iter # <<>>

(* C8. sample_into is sample behind an offset: for the same sample_size,  *)
(* source and values returned by the random source, the buffer after      *)
(* sample_into is its content at entry followed by what sample returns,   *)
(* and both make the same requests of the random source in the same       *)
(* order.                                                                 *)
SampleIntoIsSampleShifted ==
    pc = "done" =>
        LET r == SampleFn(sample_size, source, draws)
        IN  /\ ~r.panicked
            /\ samples = entry \o r.samples
            /\ requests = r.requests

SampleIntoIsSampleShiftedWitness ==
    /\ pc = "done" /\ fn = "sample_into"
    /\ entry # <<>>
    /\ \E j \in 1..Len(draws) : draws[j] < sample_size
    /\ \E j \in 1..Len(draws) : draws[j] >= sample_size
    /\ sample_size > 1

(* C9. Running size: while sample_into runs and after it, the managed     *)
(* region holds min(sample_size, count) elements, count being the number  *)
(* of source elements consumed so far.                                    *)
RunningSize ==
    pc \in {"loop", "done", "panic"} =>
        /\ count = Len(source) - Len(iter)
        /\ Len(samples) - original_length = Min(sample_size, count)

RunningSizeWitness ==
    /\ pc = "loop"
    /\ sample_size > 0
    /\ count > sample_size
    /\ iter # <<>>
    /\ Len(samples) - original_length = sample_size

(* C10. The overwrite stays inside the managed region: an iteration past  *)
(* the fill branch whose drawn index is below sample_size writes position *)
(* original_length + index, which is at least original_length and below   *)
(* the buffer's length, and changes nothing else; a drawn index that is   *)
(* not below sample_size leaves the whole buffer unchanged.               *)
OverwriteInsideRegion ==
    [][(pc = "loop" /\ count' = count + 1 /\ count' > sample_size) =>
          LET index == Last(draws')
              pos == original_length + index
          IN  IF index < sample_size
                THEN /\ original_length <= pos
                     /\ pos < Len(samples)
                     /\ pc' = "loop"
                     /\ Len(samples') = Len(samples)
                     /\ samples'[pos + 1] = Head(iter)
                     /\ \A i \in 1..Len(samples) :
                           i # pos + 1 => samples'[i] = samples[i]
                ELSE samples' = samples]_vars

OverwriteInsideRegionWitness ==
    /\ pc = "loop" /\ fn = "sample_into"
    /\ original_length = MaxPrefix /\ MaxPrefix > 0
    /\ draws # <<>> /\ Last(draws) = sample_size - 1
    /\ samples[Len(samples)] = source[count]
    /\ Distinct(source)
    /\ count > sample_size

====
